---------------------------- MODULE Spec2Model ----------------------------
(***************************************************************************)
(* Model of text-classification/run_classifier.py: a straight-line script  *)
(* that prepares a news-headline dataset, trains an LSTM classifier for a  *)
(* fixed number of epochs, saves it, loads it back and runs one inference. *)
(* The program counter pc names the statement group that runs next.        *)
(*                                                                         *)
(* A headline is modelled as the sequence of its words; every word is a    *)
(* single letter, written as its rank in the alphabet.  Joined by single   *)
(* spaces (which sort below every letter), two such headlines compare as   *)
(* Python strings exactly as their word sequences compare                  *)
(* lexicographically.  A category label is written as its rank in the      *)
(* sorted order of the label strings.                                      *)
(***************************************************************************)
EXTENDS Integers, Sequences, FiniteSets, TLC

\* ---------------------------------------------------------------- bounds
MaxWords == 2
MaxLabel == 2
MaxDocs == 3
MaxEpochs == 2

\* ------------------------------------------------------ program constants
SliceLen == 100
BatchSize == 1

Words == {1, 2}
Labels == 1..MaxLabel
\* headlines of 0..MaxWords words (the empty headline included)
Texts == UNION {[1..n -> Words] : n \in 0..MaxWords}
\* the one headline of the runs that vary the labels and the training
RunTexts == {<<1>>}
\* what one forward pass can give: its loss and whether the prediction is right
Outcomes == {[loss |-> 0, hit |-> 1], [loss |-> 1, hit |-> 1], [loss |-> 1, hit |-> 0]}
\* the values an output probability is drawn from
Probs == {0, 1}

NoPrediction == 0 - 1
NotBuilt == 0 - 1

VARIABLES
  pc,                  \* the statement group that runs next
  x_train, x_test,     \* texts, then token sequences, then padded sequences
  y_train, y_test,     \* labels, then class indices, then one-hot vectors
  corpus, max_num_words, max_num_chars,
  word_index,
  classes, class_index, reverse_class_index,
  train_ds, test_ds,
  weights,             \* number of updates applied to my_model.trainable_variables
  optimizer,           \* optimizer.iterations
  train_loss, train_accuracy, test_loss, test_accuracy,
  epochs, epoch,
  it,                  \* position of the running batch iterator
  stdout,
  saved, loaded,
  x, labeling, predicted_id,
  failedAt             \* the statement that raised, "none" while nothing did

dataVars == <<x_train, x_test, y_train, y_test, corpus, max_num_words,
              max_num_chars, word_index, classes, class_index,
              reverse_class_index, train_ds, test_ds>>
modelVars == <<weights, optimizer>>
metricVars == <<train_loss, train_accuracy, test_loss, test_accuracy>>
loopVars == <<epochs, epoch, it>>
endVars == <<saved, loaded, x, labeling, predicted_id>>
vars == <<pc, dataVars, modelVars, metricVars, loopVars, stdout, endVars, failedAt>>

\* ---------------------------------------------------------------- helpers
Min(a, b) == IF a <= b THEN a ELSE b

Range(s) == {s[i] : i \in DOMAIN s}

\* s[:k]
Take(s, k) == SubSeq(s, 1, Min(k, Len(s)))

\* Python's a < b on two headlines
StrLess(a, b) ==
  \/ \E k \in 1..Min(Len(a), Len(b)) :
       /\ \A j \in 1..(k - 1) : a[j] = b[j]
       /\ a[k] < b[k]
  \/ /\ Len(a) < Len(b)
     /\ \A j \in 1..Len(a) : a[j] = b[j]

\* max(list) of Python: the first element no other element exceeds
RECURSIVE PyMaxFrom(_, _, _)
PyMaxFrom(s, k, best) ==
  IF k > Len(s) THEN best
  ELSE PyMaxFrom(s, k + 1, IF StrLess(best, s[k]) THEN s[k] ELSE best)

PyMax(s) == PyMaxFrom(s, 2, s[1])

\* str.split(): the words of a headline
Split(t) == t

\* len(str): letters plus the spaces between them
StrLen(t) == IF Len(t) = 0 THEN 0 ELSE 2 * Len(t) - 1

\* the distinct elements of a sequence of words, in first-seen order
RECURSIVE FirstSeen(_, _)
FirstSeen(ws, acc) ==
  IF ws = << >> THEN acc
  ELSE FirstSeen(Tail(ws), IF Head(ws) \in Range(acc) THEN acc ELSE Append(acc, Head(ws)))

RECURSIVE Flatten(_)
Flatten(ts) == IF ts = << >> THEN << >> ELSE Split(Head(ts)) \o Flatten(Tail(ts))

\* create_embeddings(corpus, "word"): word -> index, from 1, in first-seen order
CreateWordIndex(c) ==
  LET order == FirstSeen(Flatten(c), << >>)
  IN [w \in Range(order) |-> CHOOSE k \in DOMAIN order : order[k] = w]

\* tokenizer.texts_to_sequences: words outside the vocabulary are dropped
RECURSIVE TextToSequence(_, _)
TextToSequence(t, wi) ==
  IF t = << >> THEN << >>
  ELSE (IF Head(t) \in DOMAIN wi THEN <<wi[Head(t)]>> ELSE << >>)
         \o TextToSequence(Tail(t), wi)

TextsToSequences(ts, wi) == [k \in DOMAIN ts |-> TextToSequence(ts[k], wi)]

\* pad_sequences with truncating="pre": the FRONT of a long sequence is cut
PadSequencePre(s, maxlen) ==
  [j \in 1..maxlen |->
     IF Len(s) > maxlen THEN s[Len(s) - maxlen + j]
     ELSE IF j <= Len(s) THEN s[j] ELSE 0]

\* pad_sequences(value=0, padding="post", truncating="post", maxlen) on one sequence
PadSequence(s, maxlen) ==
  [j \in 1..maxlen |-> IF j <= Len(s) THEN s[j] ELSE 0]

PadSequences(ss, maxlen) == [k \in DOMAIN ss |-> PadSequence(ss[k], maxlen)]

\* the elements of a finite set of integers in increasing order
RECURSIVE SortedSeq(_)
SortedSeq(S) ==
  IF S = {} THEN << >>
  ELSE LET m == CHOOSE a \in S : \A b \in S : a <= b
       IN <<m>> \o SortedSeq(S \ {m})

\* the labels as they come, duplicates kept
NpUniqueNoDedup(ys) == ys

\* np.unique: the sorted distinct elements
NpUnique(ys) == SortedSeq(Range(ys))

\* range(n) as a list
PyRange(n) == [k \in 1..n |-> k - 1]

\* dict(zip(keys, values)): a repeated key keeps its last value
DictZip(keys, values) ==
  LET n == Min(Len(keys), Len(values))
  IN [key \in {keys[k] : k \in 1..n} |->
        values[CHOOSE k \in 1..n :
                 /\ keys[k] = key
                 /\ \A j \in (k + 1)..n : keys[j] # key]]

\* keras.utils.to_categorical on one class index
OneHot(c, n) == [j \in 1..n |-> IF j = c + 1 THEN 1 ELSE 0]

ToCategorical(ys, n) == [k \in DOMAIN ys |-> OneHot(ys[k], n)]

\* Dataset.from_tensor_slices((xs, ys)).batch(b)
Batches(xs, ys, b) ==
  LET n == Min(Len(xs), Len(ys))
  IN [k \in 1..((n + b - 1) \div b) |->
        [text   |-> SubSeq(xs, (k - 1) * b + 1, Min(k * b, n)),
         labels |-> SubSeq(ys, (k - 1) * b + 1, Min(k * b, n))]]

\* train_test_split's default test size: ceil(0.25 * n)
TestSize(n) == (n + 3) \div 4

\* a keras metric object: Mean and CategoricalAccuracy both keep total and count
NewMetric == [total |-> 0, count |-> 0]
Update(m, v) == [total |-> m.total + v, count |-> m.count + 1]

NoArtifact == [exists |-> FALSE, complete |-> FALSE, weights |-> NotBuilt]

\* np.argmax of an array: the lowest 0-based index of a maximal element of the
\* flattened array; of anything else (np.asarray makes a 0-d object array of one
\* element): 0
ArgMaxFlat(a) ==
  (CHOOSE k \in DOMAIN a :
     /\ \A j \in DOMAIN a : a[j] <= a[k]
     /\ \A j \in 1..(k - 1) : a[j] < a[k]) - 1

NpArgmax(v) == IF v.kind = "array" THEN ArgMaxFlat(v.data) ELSE 0

Array(a) == [kind |-> "array", data |-> a]
Dict(a) == [kind |-> "dict", data |-> a]

\* ------------------------------------------------------------------- Init
\* The state after train_test_split: a dataset of n documents, shuffled and
\* cut into n - ceil(n/4) training and ceil(n/4) test documents.
InitWith(TextSet, LabelSet) ==
  /\ pc = "corpus"
  /\ \E n \in 2..MaxDocs :
       /\ x_train \in [1..(n - TestSize(n)) -> TextSet]
       /\ x_test \in [1..TestSize(n) -> TextSet]
       /\ y_train \in [1..(n - TestSize(n)) -> LabelSet]
       /\ y_test \in [1..TestSize(n) -> LabelSet]
  /\ corpus = << >>
  /\ max_num_words = 0
  /\ max_num_chars = 0
  /\ word_index = << >>
  /\ classes = << >>
  /\ class_index = << >>
  /\ reverse_class_index = << >>
  /\ train_ds = << >>
  /\ test_ds = << >>
  /\ weights = NotBuilt
  /\ optimizer = NotBuilt
  /\ train_loss = NewMetric
  /\ train_accuracy = NewMetric
  /\ test_loss = NewMetric
  /\ test_accuracy = NewMetric
  /\ epochs = 0
  /\ epoch = 0
  /\ it = 0
  /\ stdout = << >>
  /\ saved = NoArtifact
  /\ loaded = NoArtifact
  /\ x = << >>
  /\ labeling = Dict(<< >>)
  /\ predicted_id = NoPrediction
  /\ failedAt = "none"

Init == InitWith(RunTexts, Labels)

InitText == InitWith(Texts, {1})

\* ------------------------------------------------------- data preparation
\* lines 45-51
BuildCorpus ==
  /\ pc = "corpus"
  /\ corpus' = x_train \o x_test
  /\ max_num_words' = Len(Split(PyMax(corpus')))
  /\ max_num_chars' = StrLen(PyMax(corpus'))
  /\ pc' = "embeddings"
  /\ UNCHANGED <<x_train, x_test, y_train, y_test, word_index, classes,
                 class_index, reverse_class_index, train_ds, test_ds>>
  /\ UNCHANGED <<modelVars, metricVars, loopVars, stdout, endVars, failedAt>>

\* line 54
CreateEmbeddings ==
  /\ pc = "embeddings"
  /\ word_index' = CreateWordIndex(corpus)
  /\ pc' = "tokenize"
  /\ UNCHANGED <<x_train, x_test, y_train, y_test, corpus, max_num_words,
                 max_num_chars, classes, class_index, reverse_class_index,
                 train_ds, test_ds>>
  /\ UNCHANGED <<modelVars, metricVars, loopVars, stdout, endVars, failedAt>>

\* lines 57-58
Tokenize ==
  /\ pc = "tokenize"
  /\ x_train' = TextsToSequences(Take(x_train, SliceLen), word_index)
  /\ x_test' = TextsToSequences(Take(x_test, SliceLen), word_index)
  /\ pc' = "pad"
  /\ UNCHANGED <<y_train, y_test, corpus, max_num_words, max_num_chars,
                 word_index, classes, class_index, reverse_class_index,
                 train_ds, test_ds>>
  /\ UNCHANGED <<modelVars, metricVars, loopVars, stdout, endVars, failedAt>>

\* lines 61-79 (astype(float32) keeps the value of every small integer)
Pad ==
  /\ pc = "pad"
  /\ x_train' = PadSequences(x_train, max_num_words)
  /\ x_test' = PadSequences(x_test, max_num_words)
  /\ pc' = "classes"
  /\ UNCHANGED <<y_train, y_test, corpus, max_num_words, max_num_chars,
                 word_index, classes, class_index, reverse_class_index,
                 train_ds, test_ds>>
  /\ UNCHANGED <<modelVars, metricVars, loopVars, stdout, endVars, failedAt>>

\* an uncaught exception: the interpreter exits, nothing else changes
Raise(stage) ==
  /\ pc' = "crashed"
  /\ failedAt' = stage

\* lines 82-89
BuildClassIndex ==
  /\ pc = "classes"
  /\ classes' = NpUnique(y_train)
  /\ class_index' = DictZip(classes', PyRange(Len(classes')))
  /\ reverse_class_index' = DictZip(PyRange(Len(classes')), classes')
  /\ pc' = "encode"
  /\ UNCHANGED <<x_train, x_test, y_train, y_test, corpus, max_num_words,
                 max_num_chars, word_index, train_ds, test_ds>>
  /\ UNCHANGED <<modelVars, metricVars, loopVars, stdout, endVars, failedAt>>

Encodable(ys) == \A k \in DOMAIN ys : ys[k] \in DOMAIN class_index

Encode(ys) == [k \in DOMAIN ys |-> class_index[ys[k]]]

\* the lookup written as class_index.get(label, 0): an unknown label is swallowed
EncodeLabelsSwallowing ==
  /\ pc = "encode"
  /\ y_train' = Encode(y_train)
  /\ y_test' = [k \in DOMAIN y_test |->
                  IF y_test[k] \in DOMAIN class_index THEN class_index[y_test[k]] ELSE 0]
  /\ pc' = "categorical"
  /\ UNCHANGED <<x_train, x_test, corpus, max_num_words, max_num_chars,
                 word_index, classes, class_index, reverse_class_index,
                 train_ds, test_ds>>
  /\ UNCHANGED <<modelVars, metricVars, loopVars, stdout, endVars, failedAt>>

\* lines 92-93: class_index[label] raises KeyError on a label it does not hold;
\* line 92 has run by then, line 93 has assigned nothing
EncodeLabels ==
  /\ pc = "encode"
  /\ y_train' = Encode(y_train)
  /\ IF Encodable(y_test)
       THEN /\ y_test' = Encode(y_test)
            /\ pc' = "categorical"
            /\ UNCHANGED failedAt
       ELSE /\ y_test' = y_test
            /\ Raise("encode")
  /\ UNCHANGED <<x_train, x_test, corpus, max_num_words, max_num_chars,
                 word_index, classes, class_index, reverse_class_index,
                 train_ds, test_ds>>
  /\ UNCHANGED <<modelVars, metricVars, loopVars, stdout, endVars>>

\* lines 96-102
MakeDatasets ==
  /\ pc = "categorical"
  /\ y_train' = ToCategorical(Take(y_train, SliceLen), Len(classes))
  /\ y_test' = ToCategorical(Take(y_test, SliceLen), Len(classes))
  /\ train_ds' = Batches(x_train, y_train', BatchSize)
  /\ test_ds' = Batches(x_test, y_test', BatchSize)
  /\ pc' = "define"
  /\ UNCHANGED <<x_train, x_test, corpus, max_num_words, max_num_chars,
                 word_index, classes, class_index, reverse_class_index>>
  /\ UNCHANGED <<modelVars, metricVars, loopVars, stdout, endVars, failedAt>>

\* ------------------------------------------------------------- training
\* lines 106-127: the model, the optimizer and the four metric objects
DefineModel ==
  /\ pc = "define"
  /\ weights' = 0
  /\ optimizer' = 0
  /\ train_loss' = NewMetric
  /\ train_accuracy' = NewMetric
  /\ test_loss' = NewMetric
  /\ test_accuracy' = NewMetric
  /\ pc' = "configure"
  /\ UNCHANGED <<dataVars, loopVars, stdout, endVars, failedAt>>

Line(kind, n, of) == [kind |-> kind, n |-> n, of |-> of]

\* lines 158-162: the epoch count is fixed before the loop starts
Configure ==
  /\ pc = "configure"
  /\ epochs' \in 0..MaxEpochs
  /\ stdout' = Append(stdout, Line("banner", 0, 0))
  /\ pc' = "for_epoch"
  /\ UNCHANGED <<epoch, it>>
  /\ UNCHANGED <<dataVars, modelVars, metricVars, endVars, failedAt>>

\* range(1, epochs): the last epoch is left out
HasNextEpochShort == epoch + 1 < epochs

\* range(1, epochs+1) holds a value after epoch
HasNextEpoch == epoch + 1 <= epochs

\* lines 163-164
NextEpoch ==
  /\ pc = "for_epoch"
  /\ HasNextEpoch
  /\ epoch' = epoch + 1
  /\ stdout' = Append(stdout, Line("header", epoch', epochs))
  /\ it' = 0
  /\ pc' = "train"
  /\ UNCHANGED epochs
  /\ UNCHANGED <<dataVars, modelVars, metricVars, endVars, failedAt>>

\* line 163, the range is exhausted
LoopExit ==
  /\ pc = "for_epoch"
  /\ ~HasNextEpoch
  /\ pc' = "save"
  /\ UNCHANGED <<dataVars, modelVars, metricVars, loopVars, stdout, endVars, failedAt>>

\* lines 131-144
train_step(batch, o) ==
  /\ weights' = weights + 1
  /\ optimizer' = optimizer + 1
  /\ train_loss' = Update(train_loss, o.loss)
  /\ train_accuracy' = [total |-> train_accuracy.total + o.hit,
                        count |-> train_accuracy.count + Len(batch.labels)]
  /\ UNCHANGED <<test_loss, test_accuracy>>

\* a test step that also applies the gradients
test_step_updating(batch, o) ==
  /\ weights' = weights + 1
  /\ optimizer' = optimizer + 1
  /\ test_loss' = Update(test_loss, o.loss)
  /\ test_accuracy' = [total |-> test_accuracy.total + o.hit,
                       count |-> test_accuracy.count + Len(batch.labels)]
  /\ UNCHANGED <<train_loss, train_accuracy>>

\* lines 147-155
test_step(batch, o) ==
  /\ test_loss' = Update(test_loss, o.loss)
  /\ test_accuracy' = [total |-> test_accuracy.total + o.hit,
                       count |-> test_accuracy.count + Len(batch.labels)]
  /\ UNCHANGED <<weights, optimizer, train_loss, train_accuracy>>

\* lines 166-167, one batch
TrainBatch ==
  /\ pc = "train"
  /\ it < Len(train_ds)
  /\ \E o \in Outcomes : train_step(train_ds[it + 1], o)
  /\ it' = it + 1
  /\ UNCHANGED <<pc, epochs, epoch, dataVars, stdout, endVars, failedAt>>

\* line 167 raises
TrainBatchFails ==
  /\ pc = "train"
  /\ it < Len(train_ds)
  /\ Raise("train")
  /\ UNCHANGED <<dataVars, modelVars, metricVars, loopVars, stdout, endVars>>

\* line 166, train_ds is exhausted
TrainPassEnd ==
  /\ pc = "train"
  /\ it = Len(train_ds)
  /\ it' = 0
  /\ pc' = "test"
  /\ UNCHANGED <<epochs, epoch, dataVars, modelVars, metricVars, stdout, endVars, failedAt>>

\* lines 169-170, one batch
TestBatch ==
  /\ pc = "test"
  /\ it < Len(test_ds)
  /\ \E o \in Outcomes : test_step(test_ds[it + 1], o)
  /\ it' = it + 1
  /\ UNCHANGED <<pc, epochs, epoch, dataVars, stdout, endVars, failedAt>>

\* line 170 raises
TestBatchFails ==
  /\ pc = "test"
  /\ it < Len(test_ds)
  /\ Raise("test")
  /\ UNCHANGED <<dataVars, modelVars, metricVars, loopVars, stdout, endVars>>

\* line 169, test_ds is exhausted
TestPassEnd ==
  /\ pc = "test"
  /\ it = Len(test_ds)
  /\ pc' = "report"
  /\ UNCHANGED <<dataVars, modelVars, metricVars, loopVars, stdout, endVars, failedAt>>

\* lines 172-174: the metrics line; of its fields the log keeps the epoch number
Report ==
  /\ pc = "report"
  /\ stdout' = Append(stdout, Line("metrics", epoch + 1, 0))
  /\ pc' = "for_epoch"
  /\ UNCHANGED <<dataVars, modelVars, metricVars, loopVars, endVars, failedAt>>

\* ------------------------------------------------ persistence, inference
\* line 180
Save ==
  /\ pc = "save"
  /\ saved' = [exists |-> TRUE, complete |-> TRUE, weights |-> weights]
  /\ pc' = "load"
  /\ UNCHANGED <<loaded, x, labeling, predicted_id>>
  /\ UNCHANGED <<dataVars, modelVars, metricVars, loopVars, stdout, failedAt>>

\* line 180 raises, before or after part of the artifact is on disk
SaveFails ==
  /\ pc = "save"
  /\ saved' \in {NoArtifact, [exists |-> TRUE, complete |-> FALSE, weights |-> weights]}
  /\ Raise("save")
  /\ UNCHANGED <<loaded, x, labeling, predicted_id>>
  /\ UNCHANGED <<dataVars, modelVars, metricVars, loopVars, stdout>>

\* lines 186-191
Load ==
  /\ pc = "load"
  /\ loaded' = saved
  /\ stdout' = Append(stdout, Line("signatures", 0, 0))
  /\ pc' = "infer"
  /\ UNCHANGED <<saved, x, labeling, predicted_id>>
  /\ UNCHANGED <<dataVars, modelVars, metricVars, loopVars, failedAt>>

\* line 186 raises
LoadFails ==
  /\ pc = "load"
  /\ Raise("load")
  /\ UNCHANGED <<dataVars, modelVars, metricVars, loopVars, stdout, endVars>>

\* lines 194-205: the signature returns a dict {'output_1': tensor of shape
\* (1, num_classes)}; np.argmax is applied to the dict itself
Infer ==
  /\ pc = "infer"
  /\ x' = <<x_test[1]>>
  /\ \E dist \in [1..Len(classes) -> Probs] : labeling' = Dict(<<dist>>)
  /\ predicted_id' = NpArgmax(labeling')
  /\ stdout' = Append(stdout, Line("outputs", 0, 0))
  /\ pc' = "print"
  /\ UNCHANGED <<saved, loaded>>
  /\ UNCHANGED <<dataVars, modelVars, metricVars, loopVars, failedAt>>

\* lines 207-208
PrintLabels ==
  /\ pc = "print"
  /\ stdout' = stdout \o
       <<Line("original", reverse_class_index[NpArgmax(Array(y_test[1]))], 0),
         Line("predicted", reverse_class_index[predicted_id], 0)>>
  /\ pc' = "done"
  /\ UNCHANGED <<dataVars, modelVars, metricVars, loopVars, endVars, failedAt>>

NextText == BuildCorpus \/ CreateEmbeddings \/ Tokenize \/ Pad

SpecText == InitText /\ [][NextText]_vars

Next ==
  \/ BuildCorpus \/ CreateEmbeddings \/ Tokenize \/ Pad
  \/ BuildClassIndex \/ EncodeLabels \/ MakeDatasets
  \/ DefineModel \/ Configure \/ NextEpoch \/ LoopExit
  \/ TrainBatch \/ TrainBatchFails \/ TrainPassEnd
  \/ TestBatch \/ TestBatchFails \/ TestPassEnd
  \/ Report \/ Save \/ SaveFails \/ Load \/ LoadFails
  \/ Infer \/ PrintLabels

Spec == Init /\ [][Next]_vars

\* ------------------------------------------------------------ properties
Count(kind) == Cardinality({k \in DOMAIN stdout : stdout[k].kind = kind})

LoopPcs == {"for_epoch", "train", "test", "report"}
AfterLoopPcs == {"save", "load", "infer", "print", "done"}

\* C1: the loop runs exactly `epochs` epochs; an epoch is one pass of train_step
\* over every batch of train_ds, then one pass of test_step over every batch of
\* test_ds, then one metrics line; after the last metrics line the loop is left,
\* and the model is saved only after that (never inside the loop).
C1_EpochLoop ==
  LET k == Count("metrics")
      nT == Len(train_ds)
      nV == Len(test_ds)
  IN /\ k <= epochs
     /\ Count("header") \in {k, k + 1}
     /\ pc = "for_epoch" =>
          /\ epoch = k /\ Count("header") = k
          /\ optimizer = k * nT /\ train_loss.count = k * nT
          /\ test_loss.count = k * nV
     /\ pc = "train" =>
          /\ epoch = k + 1 /\ Count("header") = k + 1 /\ it <= nT
          /\ optimizer = k * nT + it /\ train_loss.count = k * nT + it
          /\ test_loss.count = k * nV
     /\ pc = "test" =>
          /\ epoch = k + 1 /\ it <= nV
          /\ optimizer = (k + 1) * nT /\ train_loss.count = (k + 1) * nT
          /\ test_loss.count = k * nV + it
     /\ pc = "report" =>
          /\ epoch = k + 1
          /\ optimizer = (k + 1) * nT /\ train_loss.count = (k + 1) * nT
          /\ test_loss.count = (k + 1) * nV
     /\ (pc \in AfterLoopPcs \/ saved.exists) =>
          /\ k = epochs /\ Count("header") = epochs
          /\ optimizer = epochs * nT /\ train_loss.count = epochs * nT
          /\ test_loss.count = epochs * nV
     /\ pc \in LoopPcs => ~saved.exists

C1_Witness ==
  /\ pc = "done"
  /\ epochs >= 2
  /\ Len(train_ds) >= 2
  /\ saved.complete

\* C2: the parameters (and the optimizer state) are changed by train_step alone;
\* a test step changes nothing but test_loss and test_accuracy (and the batch
\* iterator); save, load and inference leave the parameters as they are.
C2_Step ==
  /\ (pc # "define" /\ (weights' # weights \/ optimizer' # optimizer)) =>
       /\ pc = "train" /\ pc' = "train" /\ it' = it + 1
  /\ (pc = "test" /\ pc' = "test") =>
       /\ weights' = weights /\ optimizer' = optimizer
       /\ train_loss' = train_loss /\ train_accuracy' = train_accuracy
       /\ test_loss'.count = test_loss.count + 1
       /\ test_accuracy'.count = test_accuracy.count + 1
       /\ UNCHANGED <<dataVars, epochs, epoch, stdout, endVars, failedAt>>
  /\ pc \in {"save", "load", "infer", "print"} =>
       /\ weights' = weights /\ optimizer' = optimizer

C2_FrameOfParameters == [][C2_Step]_vars

C2_Witness ==
  /\ pc = "test"
  /\ it >= 1
  /\ epoch >= 2
  /\ weights >= 1

\* C3: an error is never caught: a label that cannot be encoded ends the run at
\* the encoding statement, a run that has failed takes no further step, the
\* failing statement changes nothing else, and after a failure of the label
\* encoding or of a batch step there is no artifact and no prediction; after a
\* failed save nothing is loaded, after a failed load nothing is predicted.
C3_Step ==
  /\ pc # "crashed"
  /\ (pc = "encode" /\ ~Encodable(y_test)) => pc' = "crashed"
  /\ pc' = "crashed" =>
       /\ failedAt' # "none"
       /\ UNCHANGED <<modelVars, metricVars, loopVars, stdout, loaded, predicted_id>>
  /\ failedAt' \in {"encode", "train", "test"} =>
       /\ ~saved'.exists /\ ~loaded'.exists /\ predicted_id' = NoPrediction
  /\ failedAt' = "save" => (~saved'.complete /\ ~loaded'.exists)
  /\ failedAt' \in {"save", "load"} => predicted_id' = NoPrediction
  /\ failedAt' # "none" => pc' = "crashed"

C3_FailureIsFatal == [][C3_Step]_vars

C3_Witness ==
  /\ pc = "crashed"
  /\ failedAt = "encode"
  /\ ~saved.exists

\* C4 (as claimed): when the labels are encoded, every label of y_train and every
\* label of y_test has an entry in class_index.
C4_AsClaimed ==
  pc = "encode" => (Encodable(y_train) /\ Encodable(y_test))

\* C5: class_index is a bijection between the distinct training labels and
\* 0..num_classes-1 with reverse_class_index its inverse in both directions; a
\* label that was not present has no entry, so encoding it fails.
C5_Bijection ==
  LET n == Len(classes)
  IN pc \notin {"corpus", "embeddings", "tokenize", "pad", "classes"} =>
       /\ DOMAIN reverse_class_index = 0..(n - 1)
       /\ \A L \in DOMAIN class_index :
            /\ class_index[L] \in 0..(n - 1)
            /\ reverse_class_index[class_index[L]] = L
       /\ \A i \in 0..(n - 1) :
            /\ reverse_class_index[i] \in DOMAIN class_index
            /\ class_index[reverse_class_index[i]] = i
       /\ pc = "encode" =>
            /\ DOMAIN class_index = Range(y_train)
            /\ n = Cardinality(Range(y_train))
            /\ \A L \in Labels \ Range(y_train) : L \notin DOMAIN class_index
       /\ failedAt = "encode" =>
            \E k \in DOMAIN y_test : y_test[k] \notin DOMAIN class_index

C5_Witness ==
  /\ pc = "categorical"
  /\ Len(classes) = 2
  /\ reverse_class_index[1] = 2

\* C6 (as claimed): max_num_words is the largest word count of any text of the
\* corpus, so no text of the corpus has more words than max_num_words.
C6_AsClaimed ==
  pc # "corpus" =>
    /\ \A k \in DOMAIN corpus : Len(Split(corpus[k])) <= max_num_words
    /\ \E k \in DOMAIN corpus : Len(Split(corpus[k])) = max_num_words

\* C7: padding a token sequence T to length L gives exactly L elements: T
\* followed by 0s when T is shorter, the first L elements of T when it is longer.
PaddedFrom(T, out, L) ==
  /\ DOMAIN out = 1..L
  /\ \A j \in 1..Min(L, Len(T)) : out[j] = T[j]
  /\ \A j \in (Len(T) + 1)..L : out[j] = 0

C7_Step ==
  pc = "pad" =>
    /\ DOMAIN x_train' = DOMAIN x_train
    /\ DOMAIN x_test' = DOMAIN x_test
    /\ \A k \in DOMAIN x_train : PaddedFrom(x_train[k], x_train'[k], max_num_words)
    /\ \A k \in DOMAIN x_test : PaddedFrom(x_test[k], x_test'[k], max_num_words)

C7_PadOrTruncate == [][C7_Step]_vars

C7_Witness ==
  /\ pc = "classes"
  /\ \E k \in DOMAIN x_train : Len(corpus[k]) > max_num_words
  /\ \E k \in DOMAIN x_train :
       /\ Len(corpus[k]) < max_num_words
       /\ x_train[k][max_num_words] = 0

\* C8 (as claimed): the metrics reported at the end of an epoch hold the batches
\* of that epoch only.
C8_AsClaimed ==
  pc = "report" =>
    /\ train_loss.count = Len(train_ds)
    /\ train_accuracy.count = Len(train_ds)
    /\ test_loss.count = Len(test_ds)
    /\ test_accuracy.count = Len(test_ds)

\* C9 (as claimed): the predicted index is the lowest index of a maximal entry
\* of the output distribution, and it has an entry in reverse_class_index.
C9_AsClaimed ==
  pc = "print" =>
    /\ predicted_id = ArgMaxFlat(labeling.data[1])
    /\ predicted_id \in DOMAIN reverse_class_index

\* C10 (as claimed): the number in every metrics line is the number in the
\* progress header of the same epoch, and lies in 1..epochs.
C10_AsClaimed ==
  \A k \in DOMAIN stdout :
    stdout[k].kind = "metrics" =>
      /\ stdout[k].n \in 1..epochs
      /\ \E j \in 1..(k - 1) :
           /\ stdout[j].kind = "header"
           /\ \A m \in (j + 1)..(k - 1) : stdout[m].kind # "header"
           /\ stdout[j].n = stdout[k].n

=============================================================================
